---- MODULE Spec2Model ----
(***************************************************************************)
(* Model of the single-session chess server of src/chess_engine.py:       *)
(* the ChessGame object (board, user_color, game_started,                 *)
(* waiting_for_color), its three operations start_game, set_color and     *)
(* make_move, the engine turn _get_engine_move, and the two HTTP routes   *)
(* /start and /move that dispatch to them.                                *)
(*                                                                         *)
(* Text (request bodies, UCI move strings) is a sequence of one-character *)
(* strings, so that str.strip() and str.lower() are computed.  The rules  *)
(* library (python-chess) and the engine process (Stockfish) are external *)
(* collaborators: the rules are a small abstract game given by tables     *)
(* below, the engine is a nondeterministic choice of reply.               *)
(***************************************************************************)
EXTENDS Integers, Sequences, FiniteSets, TLC

\* ------------------------------------------------------------------ bounds
\* Longest move stack the model explores; a /move request is only taken
\* while the board has room for the human's ply and the engine's ply.
MaxPly == 4

\* -------------------------------------------------------------------- text
Whitespace == {" ", "\t", "\n"}

UpperLetters == <<"A","B","C","D","E","F","G","H","I","J","K","L","M",
                  "N","O","P","Q","R","S","T","U","V","W","X","Y","Z">>

LowerLetters == <<"a","b","c","d","e","f","g","h","i","j","k","l","m",
                  "n","o","p","q","r","s","t","u","v","w","x","y","z">>

LowerChar(c) ==
    IF \E i \in 1..26 : UpperLetters[i] = c
    THEN LowerLetters[CHOOSE i \in 1..26 : UpperLetters[i] = c]
    ELSE c

\* str.lower()
Lower(s) == [i \in 1..Len(s) |-> LowerChar(s[i])]

RECURSIVE LStrip(_)
LStrip(s) ==
    IF s = <<>> THEN s
    ELSE IF Head(s) \in Whitespace THEN LStrip(Tail(s)) ELSE s

RECURSIVE RStrip(_)
RStrip(s) ==
    IF s = <<>> THEN s
    ELSE IF s[Len(s)] \in Whitespace THEN RStrip(SubSeq(s, 1, Len(s) - 1)) ELSE s

\* str.strip()
Strip(s) == RStrip(LStrip(s))

white == <<"w","h","i","t","e">>
black == <<"b","l","a","c","k">>

\* ------------------------------------------------------------- UCI parsing
Files == {"a","b","c","d","e","f","g","h"}
Ranks == {"1","2","3","4","5","6","7","8"}
PieceSymbols == {"p","n","b","r","q","k"}

NullUci == <<"0","0","0","0">>

IsSquare(s, i) == s[i] \in Files /\ s[i + 1] \in Ranks

\* chess.Move.from_uci(s) returns a move (TRUE) or raises (FALSE).  A parsed
\* move is represented by the text it was parsed from.
ParsesAsUci(s) ==
    \/ s = NullUci
    \/ /\ Len(s) = 4
       /\ s[2] = "@"
       /\ LowerChar(s[1]) \in PieceSymbols
       /\ IsSquare(s, 3)
    \/ /\ Len(s) \in {4, 5}
       /\ IsSquare(s, 1)
       /\ IsSquare(s, 3)
       /\ (Len(s) = 5 => s[5] \in PieceSymbols)
       /\ <<s[1], s[2]>> # <<s[3], s[4]>>

\* -------------------------------------------------------- the rules oracle
\* chess.WHITE is True and chess.BLACK is False in python-chess; the model
\* names them.  "None" is Python's None for user_color.
WHITE == "WHITE"
BLACK == "BLACK"

\* `not colour`
Opposite(c) == IF c = WHITE THEN BLACK ELSE WHITE

e2e4 == <<"e","2","e","4">>
g1f3 == <<"g","1","f","3">>
d1h5 == <<"d","1","h","5">>
h2h3 == <<"h","2","h","3">>
e4d5 == <<"e","4","d","5">>
e7e5 == <<"e","7","e","5">>
g8f6 == <<"g","8","f","6">>
d8h4 == <<"d","8","h","4">>
h7h6 == <<"h","7","h","6">>
e5d4 == <<"e","5","d","4">>
e1d1 == <<"e","1","d","1">>
e8d8 == <<"e","8","d","8">>

\* The abstract game: each side has two quiet moves, one move that mates,
\* one that stalemates, one capture that leaves insufficient material, and
\* one king move, the only move left once the material is insufficient.
QuietMoves(c) == IF c = WHITE THEN {e2e4, g1f3} ELSE {e7e5, g8f6}
MateMoves(c) == IF c = WHITE THEN {d1h5} ELSE {d8h4}
StaleMoves(c) == IF c = WHITE THEN {h2h3} ELSE {h7h6}
InsufMoves(c) == IF c = WHITE THEN {e4d5} ELSE {e5d4}
KingMoves(c) == IF c = WHITE THEN {e1d1} ELSE {e8d8}

AllMoves ==
    UNION {QuietMoves(c) \cup MateMoves(c) \cup StaleMoves(c) \cup InsufMoves(c)
           \cup KingMoves(c) : c \in {WHITE, BLACK}}

\* chess.Board(): the initial position, no move on the stack.
NewBoard == [present |-> TRUE, move_stack |-> <<>>]

\* self.board = None
NoBoard == [present |-> FALSE, move_stack |-> <<>>]

\* board.turn
Turn(b) == IF Len(b.move_stack) % 2 = 0 THEN WHITE ELSE BLACK

LastMove(b) == b.move_stack[Len(b.move_stack)]

\* board.is_checkmate()
is_checkmate(b) ==
    /\ b.move_stack # <<>>
    /\ LastMove(b) \in MateMoves(Opposite(Turn(b)))

\* board.is_stalemate()
is_stalemate(b) ==
    /\ b.move_stack # <<>>
    /\ LastMove(b) \in StaleMoves(Opposite(Turn(b)))

\* board.is_insufficient_material(): once the material is gone it stays gone.
is_insufficient_material(b) ==
    \E i \in 1..Len(b.move_stack) :
        b.move_stack[i] \in InsufMoves(WHITE) \cup InsufMoves(BLACK)

\* board.legal_moves: nothing when mated or stalemated, only the king move
\* with insufficient material, only quiet moves in the opening position, else
\* every other move of the side to move.
legal_moves(b) ==
    IF is_checkmate(b) \/ is_stalemate(b) THEN {}
    ELSE IF is_insufficient_material(b) THEN KingMoves(Turn(b))
    ELSE IF b.move_stack = <<>> THEN QuietMoves(Turn(b))
    ELSE QuietMoves(Turn(b)) \cup MateMoves(Turn(b))
         \cup StaleMoves(Turn(b)) \cup InsufMoves(Turn(b))

\* board.push(move)
push(b, m) == [b EXCEPT !.move_stack = Append(@, m)]

\* ------------------------------------------------------------ Python values
\* An optional string: None, or a str with its text.
None == [isNone |-> TRUE, text |-> <<>>]
Str(t) == [isNone |-> FALSE, text |-> t]

\* Python truthiness of an optional string: None and "" are falsy.
Truthy(v) == ~v.isNone /\ v.text # <<>>

\* A response text: literal, then an interpolated move (or nothing), then literal.
Msg(pre, mv, post) == [pre |-> pre, move |-> mv, post |-> post]

NoMsg == Msg("", <<>>, "")

\* ------------------------------------------------------------ the ChessGame
\* ChessGame.__init__
NewGame ==
    [board |-> NoBoard,
     user_color |-> "None",
     game_started |-> FALSE,
     waiting_for_color |-> FALSE]

\* start_game without line 41: the board of the previous game is kept.
start_game_KeepsBoard(s) ==
    [s |-> [s EXCEPT !.game_started = FALSE,
                     !.waiting_for_color = TRUE],
     raised |-> FALSE,
     result |-> Msg("Game started. Choose engine color: black or white?", <<>>, ""),
     human |-> <<>>,
     calls |-> <<>>]

\* ChessGame.start_game
start_game(s) ==
    [s |-> [s EXCEPT !.board = NewBoard,
                     !.game_started = FALSE,
                     !.waiting_for_color = TRUE],
     raised |-> FALSE,
     result |-> Msg("Game started. Choose engine color: black or white?", <<>>, ""),
     human |-> <<>>,
     calls |-> <<>>]

\* ChessGame._get_engine_move on board b when the engine answers best_move:
\* the board afterwards, the value returned, and whether from_uci raised.
get_engine_move(b, best_move) ==
    IF Truthy(best_move)
    THEN IF ~ParsesAsUci(best_move.text)
         THEN [raised |-> TRUE, board |-> b, ret |-> None]
         ELSE IF best_move.text \in legal_moves(b)
              THEN [raised |-> FALSE, board |-> push(b, best_move.text), ret |-> best_move]
              ELSE [raised |-> FALSE, board |-> b, ret |-> None]
    ELSE [raised |-> FALSE, board |-> b, ret |-> None]

\* One call of the engine: the position sent and the reply received.
EngineCall(b, best_move) == [fen |-> b, reply |-> best_move]

\* Line 51 with the colours exchanged.
engine_color_of_Swapped(c) == IF c = white THEN BLACK ELSE WHITE

\* Line 51: the colour the engine plays for a validated colour text.
engine_color_of(c) == IF c = white THEN WHITE ELSE BLACK

\* Lines 52-54 without the `not`.
begin_game_SameColour(s, engine_color) ==
    [s EXCEPT !.user_color = engine_color,
              !.game_started = TRUE,
              !.waiting_for_color = FALSE]

\* Lines 52-54 without line 53: game_started is not set.
begin_game_NotStarted(s, engine_color) ==
    [s EXCEPT !.user_color = Opposite(engine_color),
              !.waiting_for_color = FALSE]

\* Lines 52-54 without line 54: the colour choice stays open.
begin_game_StillWaiting(s, engine_color) ==
    [s EXCEPT !.user_color = Opposite(engine_color),
              !.game_started = TRUE]

\* Lines 52-54: the human gets the other colour and the game is in progress.
begin_game(s, engine_color) ==
    [s EXCEPT !.user_color = Opposite(engine_color),
              !.game_started = TRUE,
              !.waiting_for_color = FALSE]

\* ChessGame.set_color after the colour was validated (lines 52-62): assign
\* the colours, and let the engine open when it plays White.
open_game(s, engine_color, best_move) ==
    LET s1 == begin_game(s, engine_color) IN
    IF engine_color = WHITE
    THEN LET t == get_engine_move(s1.board, best_move)
             s2 == [s1 EXCEPT !.board = t.board]
             calls == <<EngineCall(s1.board, best_move)>>
         IN
         IF t.raised
         THEN [s |-> s2, raised |-> TRUE, result |-> NoMsg,
               human |-> <<>>, calls |-> calls]
         ELSE IF Truthy(t.ret)
         THEN [s |-> s2, raised |-> FALSE,
               result |-> Msg("You are white. First move: ", t.ret.text, ""),
               human |-> <<>>, calls |-> calls]
         ELSE [s |-> s2, raised |-> FALSE,
               result |-> Msg("Engine error", <<>>, ""),
               human |-> <<>>, calls |-> calls]
    ELSE [s |-> s1, raised |-> FALSE,
          result |-> Msg("Engine is black. You are white. Make your move.", <<>>, ""),
          human |-> <<>>, calls |-> <<>>]

\* set_color without the membership test of line 48: whatever is not "white"
\* is taken for "black".
set_color_Unvalidated(s, color_input, best_move) ==
    open_game(s, engine_color_of(Lower(Strip(color_input))), best_move)

\* ChessGame.set_color
set_color(s, color_input, best_move) ==
    LET c == Lower(Strip(color_input)) IN
    IF c \notin {black, white}
    THEN [s |-> s, raised |-> FALSE,
          result |-> Msg("Invalid color. Choose 'black' or 'white'.", <<>>, ""),
          human |-> <<>>, calls |-> <<>>]
    ELSE open_game(s, engine_color_of(c), best_move)

\* Lines 90-99 without the draw test of lines 96-97.
engine_reply_NoDrawTest(s1, m, best_move) ==
    LET t == get_engine_move(s1.board, best_move)
        s2 == [s1 EXCEPT !.board = t.board]
        calls == <<EngineCall(s1.board, best_move)>>
    IN
    IF t.raised
    THEN [s |-> s2, raised |-> TRUE, result |-> NoMsg,
          human |-> <<m>>, calls |-> calls]
    ELSE IF ~Truthy(t.ret)
    THEN [s |-> s2, raised |-> FALSE,
          result |-> Msg("Engine error", <<>>, ""),
          human |-> <<m>>, calls |-> calls]
    ELSE IF is_checkmate(s2.board)
    THEN [s |-> s2, raised |-> FALSE,
          result |-> Msg("", t.ret.text, "\nCheckmate, I win!"),
          human |-> <<m>>, calls |-> calls]
    ELSE [s |-> s2, raised |-> FALSE,
          result |-> Msg("", t.ret.text, ""),
          human |-> <<m>>, calls |-> calls]

\* ChessGame.make_move from the engine turn on (lines 90-99), on the session
\* s1 that already holds the human's move m.
engine_reply(s1, m, best_move) ==
    LET t == get_engine_move(s1.board, best_move)
        s2 == [s1 EXCEPT !.board = t.board]
        calls == <<EngineCall(s1.board, best_move)>>
    IN
    IF t.raised
    THEN [s |-> s2, raised |-> TRUE, result |-> NoMsg,
          human |-> <<m>>, calls |-> calls]
    ELSE IF ~Truthy(t.ret)
    THEN [s |-> s2, raised |-> FALSE,
          result |-> Msg("Engine error", <<>>, ""),
          human |-> <<m>>, calls |-> calls]
    ELSE IF is_checkmate(s2.board)
    THEN [s |-> s2, raised |-> FALSE,
          result |-> Msg("", t.ret.text, "\nCheckmate, I win!"),
          human |-> <<m>>, calls |-> calls]
    ELSE IF is_stalemate(s2.board) \/ is_insufficient_material(s2.board)
    THEN [s |-> s2, raised |-> FALSE,
          result |-> Msg("", t.ret.text, "\nDraw"),
          human |-> <<m>>, calls |-> calls]
    ELSE [s |-> s2, raised |-> FALSE,
          result |-> Msg("", t.ret.text, ""),
          human |-> <<m>>, calls |-> calls]

\* Lines 83-99 without the tests of lines 85-88: the engine is asked even when
\* the human's move ended the game.
apply_move_NoTerminalTest(s, m, best_move) ==
    engine_reply([s EXCEPT !.board = push(s.board, m)], m, best_move)

\* ChessGame.make_move after the move was found legal (lines 83-99): push it,
\* stop if the game is over, else run the engine turn.
apply_move(s, m, best_move) ==
    LET b1 == push(s.board, m)
        s1 == [s EXCEPT !.board = b1]
    IN
    IF is_checkmate(b1)
    THEN [s |-> s1, raised |-> FALSE,
          result |-> Msg("Checkmate, you win!", <<>>, ""),
          human |-> <<m>>, calls |-> <<>>]
    ELSE IF is_stalemate(b1) \/ is_insufficient_material(b1)
    THEN [s |-> s1, raised |-> FALSE,
          result |-> Msg("Draw", <<>>, ""),
          human |-> <<m>>, calls |-> <<>>]
    ELSE engine_reply(s1, m, best_move)

\* make_move without the legality test of line 80: every well-formed move is
\* pushed.
make_move_Unchecked(s, move_input, best_move) ==
    LET m == Lower(Strip(move_input)) IN
    IF ~ParsesAsUci(m)
    THEN [s |-> s, raised |-> FALSE,
          result |-> Msg("Illegal move", <<>>, ""),
          human |-> <<>>, calls |-> <<>>]
    ELSE apply_move(s, m, best_move)

\* ChessGame.make_move
make_move(s, move_input, best_move) ==
    LET m == Lower(Strip(move_input))
        illegal == [s |-> s, raised |-> FALSE,
                    result |-> Msg("Illegal move", <<>>, ""),
                    human |-> <<>>, calls |-> <<>>]
    IN
    IF ~ParsesAsUci(m) THEN illegal
    ELSE IF m \notin legal_moves(s.board) THEN illegal
    ELSE apply_move(s, m, best_move)

\* ---------------------------------------------------------------- requests
e2e5 == <<"e","2","e","5">>

\* Request bodies the model posts to /move: colours in several spellings,
\* text that is no colour, every move of the game, a move in capitals with
\* blanks around it, well-formed moves that are never legal, and text that is
\* no move at all.
RequestBodies ==
    {white, black,
     <<" ","W","h","i","t","e","\n">>,
     <<"B","L","A","C","K">>,
     <<"r","e","d">>,
     <<>>,
     <<" ","E","2","E","4"," ">>,
     e2e5,
     NullUci,
     <<"e","7","e","8","q">>}
    \cup AllMoves

\* What engine.get_best_move_time may hand back: nothing, an empty string, any
\* move of the game (legal in the position sent or not), a well-formed move
\* that is never legal, and text that is no move.
EngineReplies ==
    {None, Str(<<>>), Str(e2e5), Str(<<"(","n","o","n","e",")">>)}
    \cup {Str(m) : m \in AllMoves}

\* The outcome of a handler that raised: Flask answers 500 with no text of the
\* game; otherwise the route returns the result with status 200.
Reply(r) ==
    IF r.raised THEN [status |-> 500, body |-> NoMsg]
    ELSE [status |-> 200, body |-> r.result]

\* The /start route.
start(s) == [op |-> "start", r |-> start_game(s)]

\* The /move route with the test of line 116 ahead of the test of line 112.
move_StartedFirst(s, data, best_move) ==
    LET move_input == Strip(data) IN
    IF ~s.game_started
    THEN [op |-> "no_game",
          r |-> [s |-> s, raised |-> FALSE,
                 result |-> Msg("No game in progress. Start a game with /start", <<>>, ""),
                 human |-> <<>>, calls |-> <<>>]]
    ELSE IF s.waiting_for_color
    THEN [op |-> "set_color", r |-> set_color(s, move_input, best_move)]
    ELSE [op |-> "make_move", r |-> make_move(s, move_input, best_move)]

\* The /move route: which operation the request is dispatched to, and its
\* outcome.
move(s, data, best_move) ==
    LET move_input == Strip(data) IN
    IF s.waiting_for_color
    THEN [op |-> "set_color", r |-> set_color(s, move_input, best_move)]
    ELSE IF ~s.game_started
    THEN [op |-> "no_game",
          r |-> [s |-> s, raised |-> FALSE,
                 result |-> Msg("No game in progress. Start a game with /start", <<>>, ""),
                 human |-> <<>>, calls |-> <<>>]]
    ELSE [op |-> "make_move", r |-> make_move(s, move_input, best_move)]

\* A result that ends the game: checkmate or draw, on either side's move.
IsTerminalResult(m) ==
    \/ m.pre \in {"Checkmate, you win!", "Draw"}
    \/ m.post \in {"\nCheckmate, I win!", "\nDraw"}

\* ------------------------------------------------------------ state machine
VARIABLES
    game,       \* the module-level ChessGame object
    response,   \* what the last request was answered with
    last,       \* the last request: operation, body, session before it and
                \* whether the game had finished, the human move it pushed,
                \* the engine calls it made
    finished,   \* a make_move since the last start returned checkmate or draw
    thr,        \* interleaved requests: each request thread's position and locals
    gen,        \* interleaved requests: how many boards start_game has created
    epush,      \* interleaved requests: the last push of an engine reply
    tally       \* interleaved requests: colour assignments and opening engine
                \* turns since the last start

vars == <<game, response, last, finished>>

\* The variables of the interleaved specification SpecConc.
cvars == <<game, response, thr, gen, epush, tally>>

\* How many request threads SpecConc runs, how many /start requests, and the
\* longest move stack it explores.
NumThreads == 2
MaxStarts == 2
ConcMaxPly == 2

Threads == 1..NumThreads

\* A thread that is handling no request.
IdleThread ==
    [pc |-> "idle", caller |-> "", arg |-> <<>>, fen |-> NoBoard,
     gsent |-> 0, best |-> None, clean |-> FALSE]

NoPush == [fen |-> NoBoard, gsent |-> 0, on |-> NoBoard, gon |-> 0]

ConcIdle ==
    /\ thr = [t \in Threads |-> IdleThread]
    /\ gen = 0
    /\ epush = NoPush
    /\ tally = [assigns |-> 0, openings |-> 0]

Init ==
    /\ game = NewGame
    /\ response = [status |-> 200, body |-> NoMsg]
    /\ last = [op |-> "init", input |-> <<>>, pre |-> NewGame,
               was_finished |-> FALSE, human |-> <<>>, calls |-> <<>>]
    /\ finished = FALSE
    /\ ConcIdle

Handled(h, data) ==
    /\ UNCHANGED <<thr, gen, epush, tally>>
    /\ game' = h.r.s
    /\ response' = Reply(h.r)
    /\ last' = [op |-> h.op, input |-> data, pre |-> game,
                was_finished |-> finished,
                human |-> h.r.human, calls |-> h.r.calls]

\* A request to /start.
Start ==
    /\ Handled(start(game), <<>>)
    /\ finished' = FALSE

\* A request to /move, handled to completion before the next request.
Move ==
    \E data \in RequestBodies, best_move \in EngineReplies :
        LET h == move(game, data, best_move) IN
        /\ h.op = "make_move" => Len(game.board.move_stack) + 2 <= MaxPly
        /\ Handled(h, data)
        /\ finished' = (finished \/ (h.op = "make_move" /\ ~h.r.raised
                                      /\ IsTerminalResult(h.r.result)))

Next == Start \/ Move

Spec == Init /\ [][Next]_vars

\* ------------------------------------------------------------------ claims
\* The text of the last request body as the handlers see it.
Normalised == Lower(Strip(last.input))

\* The last request was a submitMove that pushed the human's move.
HumanMoveApplied == last.op = "make_move" /\ last.human # <<>>

Answered(text) == response = [status |-> 200, body |-> Msg(text, <<>>, "")]

\* C1: whenever a submitMove is accepted (the human's move is pushed), the
\* side to move of the board it is pushed on is the human's colour, i.e. the
\* engine has answered every earlier human move.
C1_AcceptedOnHumanTurn ==
    HumanMoveApplied => Turn(last.pre.board) = last.pre.user_color

\* C2: every engine turn pushes a move only if the reply is legal in the
\* position sent, and for a missing reply or a reply not legal in that
\* position it reports "Engine error" and leaves the board as it was sent.
C2_EngineMoveValidated ==
    \A i \in 1..Len(last.calls) :
        LET call == last.calls[i]
            isLegal == ~call.reply.isNone /\ call.reply.text \in legal_moves(call.fen)
        IN
        /\ game.board # call.fen =>
               isLegal /\ game.board = push(call.fen, call.reply.text)
        /\ ~isLegal => Answered("Engine error") /\ game.board = call.fen

\* C3: a submitMove whose normalised input does not parse, or parses to a
\* move that is not legal in the current position, answers exactly
\* "Illegal move", pushes nothing, does not call the engine, and leaves the
\* whole session as it was.
C3_IllegalMoveIsNoOp ==
    (last.op = "make_move"
     /\ (~ParsesAsUci(Normalised) \/ Normalised \notin legal_moves(last.pre.board)))
    => /\ Answered("Illegal move")
       /\ game = last.pre
       /\ last.human = <<>>
       /\ last.calls = <<>>

\* "e2e5" was submitted on the initial position of a game in progress.
C3_Witness ==
    /\ last.op = "make_move"
    /\ last.input = e2e5
    /\ last.pre.board = NewBoard
    /\ Answered("Illegal move")

\* C4: once a submitMove has returned checkmate or draw, no later /move
\* request pushes a move or calls the engine until start is called.
C4_NoMoveAfterFinish ==
    (last.op = "make_move" /\ last.was_finished)
    => last.human = <<>> /\ last.calls = <<>>

\* C5: chooseColor with an input that normalises to neither "white" nor
\* "black" answers the invalid-colour message and changes nothing: still
\* awaiting the colour, board still the initial position, user_color not
\* assigned, engine not called.
C5_InvalidColourIsNoOp ==
    (last.op = "set_color" /\ Normalised \notin {white, black})
    => /\ Answered("Invalid color. Choose 'black' or 'white'.")
       /\ game = last.pre
       /\ game.waiting_for_color
       /\ ~game.game_started
       /\ game.board = NewBoard
       /\ last.calls = <<>>

\* A colour request carrying "red" was turned down.
C5_Witness ==
    /\ last.op = "set_color"
    /\ last.input = <<"r","e","d">>
    /\ Answered("Invalid color. Choose 'black' or 'white'.")
    /\ game.waiting_for_color

\* C6: chooseColor with a valid colour c makes c the engine's colour and its
\* complement the human's, and the game is in progress; for "white" the
\* engine turn runs once, on the initial position, and for "black" the engine
\* is not asked and the board is still the initial position with White, the
\* human, to move.
C6_ValidColourStartsGame ==
    (last.op = "set_color" /\ Normalised \in {white, black})
    => /\ game.user_color = (IF Normalised = white THEN BLACK ELSE WHITE)
       /\ game.game_started
       /\ ~game.waiting_for_color
       /\ Normalised = white =>
              /\ Len(last.calls) = 1
              /\ last.calls[1].fen = NewBoard
       /\ Normalised = black =>
              /\ last.calls = <<>>
              /\ game.board = NewBoard
              /\ Turn(game.board) = game.user_color

\* " White\n" was accepted as the engine's colour and the engine was asked once.
C6_Witness ==
    /\ last.op = "set_color"
    /\ last.input = <<" ","W","h","i","t","e","\n">>
    /\ game.user_color = BLACK
    /\ game.game_started
    /\ Len(last.calls) = 1

\* C7 as claimed: after start and chooseColor("white") the human is White, the
\* engine was not asked and the board is the initial position; after start
\* and chooseColor("black") the human is Black, one ply is on the board and
\* Black is to move.  (set_color only ever runs on the board start created.)
C7_ColourScenarios ==
    last.op = "set_color"
    => /\ Normalised = white =>
              /\ game.user_color = WHITE
              /\ last.calls = <<>>
              /\ game.board = NewBoard
       /\ Normalised = black =>
              /\ game.user_color = BLACK
              /\ Len(game.board.move_stack) = 1
              /\ Turn(game.board) = BLACK

\* C7 amended: the colour named is the engine's.  After chooseColor("black")
\* the human is White, the engine was not asked and the board is the initial
\* position; after chooseColor("white") the human is Black, the engine was
\* asked once about the initial position, and the board holds exactly that
\* one ply with Black to move when the reply is legal there, no ply otherwise.
C7_ColourScenariosAmended ==
    (last.op = "set_color" /\ last.pre.board = NewBoard)
    => /\ Normalised = black =>
              /\ game.user_color = WHITE
              /\ last.calls = <<>>
              /\ game.board = NewBoard
       /\ Normalised = white =>
              /\ game.user_color = BLACK
              /\ Len(last.calls) = 1
              /\ last.calls[1].fen = NewBoard
              /\ LET reply == last.calls[1].reply IN
                 IF ~reply.isNone /\ reply.text \in legal_moves(NewBoard)
                 THEN /\ game.board.move_stack = <<reply.text>>
                      /\ Turn(game.board) = BLACK
                 ELSE game.board = NewBoard

\* chooseColor("white") was answered with the engine's first move.
C7_Witness ==
    /\ last.op = "set_color"
    /\ last.input = white
    /\ game.user_color = BLACK
    /\ Len(game.board.move_stack) = 1
    /\ Turn(game.board) = BLACK
    /\ response.status = 200
    /\ response.body.pre = "You are white. First move: "

\* C8: when the engine plays White (the human is Black), no submitMove pushes
\* a move on the initial position: the engine's opening move comes first.
C8_EngineOpensBeforeHuman ==
    ~(HumanMoveApplied /\ last.pre.user_color = BLACK /\ last.pre.board = NewBoard)

\* The session start leaves behind when nothing is carried over.
FreshGame ==
    [board |-> NewBoard,
     user_color |-> "None",
     game_started |-> FALSE,
     waiting_for_color |-> TRUE]

StartPrompt == "Game started. Choose engine color: black or white?"

\* C9 as claimed: after start the complete session is the same fresh state
\* whatever came before, no colour carried over, and a second start changes
\* nothing.
C9_StartYieldsFreshState ==
    last.op = "start"
    => /\ Answered(StartPrompt)
       /\ game = FreshGame
       /\ start_game(game).s = game

\* C9 amended: after start the board is the initial position, game_started
\* is false and waiting_for_color is true whatever came before, user_color
\* keeps the value it had, the answer is the prompt, and a second start
\* changes nothing.
C9_StartResetsAllButColour ==
    last.op = "start"
    => /\ Answered(StartPrompt)
       /\ game = [FreshGame EXCEPT !.user_color = last.pre.user_color]
       /\ start_game(game).s = game

\* start was called on a game in progress with moves on the board.
C9_Witness ==
    /\ last.op = "start"
    /\ last.pre.game_started
    /\ last.pre.board.move_stack # <<>>
    /\ last.pre.user_color = BLACK
    /\ game.board = NewBoard

\* C10: when the human's pushed move leaves the position terminal the engine
\* is not asked, the answer is the human-win message on checkmate and the
\* draw message on stalemate or insufficient material, and the board is the
\* previous board with the human's move as its last ply.
C10_HumanTerminalMove ==
    HumanMoveApplied
    => LET b1 == push(last.pre.board, last.human[1]) IN
       /\ is_checkmate(b1) =>
              /\ Answered("Checkmate, you win!")
              /\ last.calls = <<>>
              /\ game.board = b1
       /\ (~is_checkmate(b1) /\ (is_stalemate(b1) \/ is_insufficient_material(b1))) =>
              /\ Answered("Draw")
              /\ last.calls = <<>>
              /\ game.board = b1

\* The human's move gave checkmate.
C10_Witness ==
    /\ HumanMoveApplied
    /\ is_checkmate(game.board)
    /\ LastMove(game.board) = last.human[1]
    /\ Answered("Checkmate, you win!")

\* C11: every /start and /move request completes with a plain-text message
\* and status 200, whatever the engine replies.
C11_AlwaysStatus200 == response.status = 200

\* The phase of a session: the /move route's own tests tell the first three
\* apart; the code keeps no flag for Finished, which is a game in progress in
\* which a make_move has returned a checkmate or draw result.
Phase(s, fin) ==
    IF s.waiting_for_color THEN "AwaitingColorChoice"
    ELSE IF ~s.game_started THEN "NotStarted"
    ELSE IF fin THEN "Finished"
    ELSE "InProgress"

PhaseBefore == Phase(last.pre, last.was_finished)

PhaseNow == Phase(game, finished)

\* C12: a request changes the phase only along NotStarted ->
\* AwaitingColorChoice -> InProgress -> Finished or, by start, to
\* AwaitingColorChoice: start always ends in AwaitingColorChoice and nothing
\* else leaves NotStarted; only a chooseColor goes from AwaitingColorChoice to
\* InProgress; Finished is entered only from InProgress by a submitMove that
\* returned a terminal result; and Finished is left only by start.
C12_PhaseOrder ==
    /\ last.op = "start" => PhaseNow = "AwaitingColorChoice"
    /\ last.op \notin {"start", "init"} =>
        \/ PhaseNow = PhaseBefore
        \/ /\ PhaseBefore = "AwaitingColorChoice"
           /\ PhaseNow = "InProgress"
           /\ last.op = "set_color"
        \/ /\ PhaseBefore = "InProgress"
           /\ PhaseNow = "Finished"
           /\ last.op = "make_move"
           /\ response.status = 200
           /\ IsTerminalResult(response.body)

\* A submitMove took the game from InProgress to Finished.
C12_Witness ==
    /\ last.op = "make_move"
    /\ PhaseBefore = "InProgress"
    /\ PhaseNow = "Finished"

NoGameText == "No game in progress. Start a game with /start"

InvalidColourText == "Invalid color. Choose 'black' or 'white'."

\* The last request was a /move that found the session awaiting the colour
\* and carried text that reads as a chess move.
MoveWhileAwaiting ==
    /\ last.op \notin {"start", "init"}
    /\ last.pre.waiting_for_color
    /\ ParsesAsUci(Normalised)

\* C13 as claimed: a /move carrying a chess move while the session awaits the
\* colour is answered with the no-game-in-progress message and changes
\* nothing.
C13_MoveWhileAwaitingIsNoGame ==
    MoveWhileAwaiting => Answered(NoGameText) /\ game = last.pre

\* C13 amended: such a request is taken for a colour choice and answered with
\* the invalid-colour message; board and phase are unchanged.
C13_MoveWhileAwaitingIsInvalidColour ==
    MoveWhileAwaiting
    => /\ last.op = "set_color"
       /\ Answered(InvalidColourText)
       /\ game = last.pre
       /\ game.board = NewBoard
       /\ PhaseNow = "AwaitingColorChoice"

\* "e2e4" was posted right after start.
C13_Witness ==
    /\ last.op = "set_color"
    /\ last.input = e2e4
    /\ last.pre.waiting_for_color
    /\ Answered(InvalidColourText)

\* C14: whenever the session awaits the colour choice the board exists and is
\* the initial position.
C14_AwaitingBoardIsInitial ==
    game.waiting_for_color => game.board = NewBoard

\* The session awaits the colour after a start that discarded a board with
\* moves on it.
C14_Witness ==
    /\ game.waiting_for_color
    /\ last.op = "start"
    /\ last.pre.board.move_stack # <<>>
    /\ game.board.present
    /\ game.board.move_stack = <<>>

\* C15: once the colour is chosen (game_started, set together with
\* user_color and cleared only by start), every later request other than
\* start goes to make_move, leaves user_color as it was and leaves the colour
\* chosen; so user_color is assigned at most once between two starts.
C15_ColourFixedUntilStart ==
    (last.op \notin {"start", "init"} /\ last.pre.game_started)
    => /\ last.op = "make_move"
       /\ game.user_color = last.pre.user_color
       /\ game.game_started
       /\ ~game.waiting_for_color

\* After a failed opening engine turn (human Black, board still initial) the
\* colour was posted again and user_color stayed as it was.
C15_Witness ==
    /\ last.op = "make_move"
    /\ last.input = black
    /\ last.pre.game_started
    /\ last.pre.board = NewBoard
    /\ last.pre.user_color = BLACK
    /\ game.user_color = BLACK

\* The last request ran an engine turn whose reply was missing or not legal
\* in the position sent.
EngineTurnFailed ==
    /\ last.calls # <<>>
    /\ LET call == last.calls[1] IN
       call.reply.isNone \/ call.reply.text \notin legal_moves(call.fen)

\* C16: after a failed engine turn the answer is "Engine error" and the game
\* is in progress; in chooseColor the board is still the initial position, in
\* submitMove it holds the human's move and nothing after it; the next /move
\* is dispatched to make_move.
C16_StateAfterEngineFailure ==
    EngineTurnFailed
    => /\ Answered("Engine error")
       /\ PhaseNow = "InProgress"
       /\ last.op = "set_color" => game.board = NewBoard
       /\ last.op = "make_move" =>
              game.board = push(last.pre.board, last.human[1])
       /\ move(game, e2e4, None).op = "make_move"

\* The answer make_move gives after the engine's move mv led to board b.
EngineMoveAnswer(b, mv) ==
    IF is_checkmate(b) THEN Msg("", mv, "\nCheckmate, I win!")
    ELSE IF is_stalemate(b) \/ is_insufficient_material(b) THEN Msg("", mv, "\nDraw")
    ELSE Msg("", mv, "")

\* C17: when the engine's reply to a submitMove is legal it is on the board,
\* and the answer is the engine's move followed by the engine-win message on
\* checkmate or the draw message on stalemate or insufficient material; when
\* the position is not terminal the answer is exactly the move and the game
\* stays in progress.
C17_EngineMoveAnswer ==
    (last.op = "make_move" /\ last.calls # <<>> /\ ~EngineTurnFailed)
    => LET call == last.calls[1]
           b2 == push(call.fen, call.reply.text)
       IN
       /\ game.board = b2
       /\ response = [status |-> 200, body |-> EngineMoveAnswer(b2, call.reply.text)]
       /\ (~is_checkmate(b2) /\ ~is_stalemate(b2) /\ ~is_insufficient_material(b2))
              => PhaseNow = "InProgress"

\* The engine's reply left insufficient material and was answered with the
\* move and the draw message.
C17_Witness ==
    /\ last.op = "make_move"
    /\ last.calls # <<>>
    /\ is_insufficient_material(game.board)
    /\ response.status = 200
    /\ response.body.move = LastMove(game.board)
    /\ response.body.post = "\nDraw"

\* The moves of the pieces of colour c.
MovesOf(c) ==
    IF c \in {WHITE, BLACK}
    THEN QuietMoves(c) \cup MateMoves(c) \cup StaleMoves(c) \cup InsufMoves(c)
         \cup KingMoves(c)
    ELSE {}

\* C18: every move a submitMove pushes is a move of a piece of user_color,
\* made with user_color to move.
C18_HumanMovesOwnPieces ==
    HumanMoveApplied
    => /\ last.human[1] \in MovesOf(last.pre.user_color)
       /\ Turn(last.pre.board) = last.pre.user_color

\* ------------------------------------------------- interleaved requests
\* The server has no lock around the session: Flask runs each request in its
\* own thread and the engine call blocks for the thinking time.  SpecConc runs
\* NumThreads request threads, one step per access to the shared ChessGame.

\* Bodies and engine replies of the interleaved specification.
ConcBodies == {white, black, e2e4, e7e5}

ConcReplies == {None, Str(e2e4), Str(e7e5), Str(<<"(","n","o","n","e",")">>)}

StartPcs == {"s_started", "s_waiting"}

\* Thread t goes on as record r; the answer and the observations stay.
Goto(t, r) ==
    /\ thr' = [thr EXCEPT ![t] = r]
    /\ UNCHANGED <<response, gen, epush, tally, last, finished>>

\* Thread t returns: the route answers and the thread is free again.
Respond(t, status, msg) ==
    /\ response' = [status |-> status, body |-> msg]
    /\ thr' = [thr EXCEPT ![t] = IdleThread]

\* /start arrives and start_game runs line 41.  Requests in flight are no
\* longer requests issued after the last start, and the tally starts anew.
CStart(t) ==
    /\ thr[t].pc = "idle"
    /\ gen < MaxStarts
    /\ game' = [game EXCEPT !.board = NewBoard]
    /\ gen' = gen + 1
    /\ thr' = [u \in Threads |->
                 IF u = t THEN [IdleThread EXCEPT !.pc = "s_started"]
                 ELSE [thr[u] EXCEPT !.clean = FALSE]]
    /\ tally' = [assigns |-> 0, openings |-> 0]
    /\ UNCHANGED <<response, epush, last, finished>>

\* start_game line 42.
CStartStarted(t) ==
    /\ thr[t].pc = "s_started"
    /\ game' = [game EXCEPT !.game_started = FALSE]
    /\ Goto(t, [thr[t] EXCEPT !.pc = "s_waiting"])

\* start_game lines 43-44 and the return of the route.
CStartWaiting(t) ==
    /\ thr[t].pc = "s_waiting"
    /\ game' = [game EXCEPT !.waiting_for_color = TRUE]
    /\ Respond(t, 200, Msg("Game started. Choose engine color: black or white?", <<>>, ""))
    /\ UNCHANGED <<gen, epush, tally, last, finished>>

\* /move arrives: lines 110-112, and for a colour request lines 47-49.
CMove(t) ==
    /\ thr[t].pc = "idle"
    /\ \E data \in ConcBodies :
        LET move_input == Strip(data)
            clean == \A u \in Threads : thr[u].pc \notin StartPcs
        IN
        IF game.waiting_for_color
        THEN LET c == Lower(Strip(move_input)) IN
             IF c \notin {black, white}
             THEN /\ Respond(t, 200, Msg("Invalid color. Choose 'black' or 'white'.", <<>>, ""))
                  /\ UNCHANGED <<game, gen, epush, tally, last, finished>>
             ELSE /\ Goto(t, [IdleThread EXCEPT !.pc = "c_user", !.caller = "set_color",
                                                !.arg = c, !.clean = clean])
                  /\ UNCHANGED game
        ELSE /\ Goto(t, [IdleThread EXCEPT !.pc = "m_started", !.arg = move_input,
                                           !.clean = clean])
             /\ UNCHANGED game

\* move line 116, and for a move request lines 75-79.
CMoveStarted(t) ==
    /\ thr[t].pc = "m_started"
    /\ UNCHANGED game
    /\ IF ~game.game_started
       THEN /\ Respond(t, 200, Msg("No game in progress. Start a game with /start", <<>>, ""))
            /\ UNCHANGED <<gen, epush, tally, last, finished>>
       ELSE LET m == Lower(Strip(thr[t].arg)) IN
            IF ~ParsesAsUci(m)
            THEN /\ Respond(t, 200, Msg("Illegal move", <<>>, ""))
                 /\ UNCHANGED <<gen, epush, tally, last, finished>>
            ELSE Goto(t, [thr[t] EXCEPT !.pc = "k_legal", !.caller = "make_move", !.arg = m])

\* set_color lines 51-52.
CSetUser(t) ==
    /\ thr[t].pc = "c_user"
    /\ game' = [game EXCEPT !.user_color = Opposite(engine_color_of(thr[t].arg))]
    /\ thr' = [thr EXCEPT ![t].pc = "c_started"]
    /\ tally' = [tally EXCEPT !.assigns = @ + (IF thr[t].clean THEN 1 ELSE 0)]
    /\ UNCHANGED <<response, gen, epush, last, finished>>

\* set_color line 53.
CSetStarted(t) ==
    /\ thr[t].pc = "c_started"
    /\ game' = [game EXCEPT !.game_started = TRUE]
    /\ Goto(t, [thr[t] EXCEPT !.pc = "c_waiting"])

\* set_color lines 54-56 and, for the engine playing Black, line 62.
CSetWaiting(t) ==
    /\ thr[t].pc = "c_waiting"
    /\ game' = [game EXCEPT !.waiting_for_color = FALSE]
    /\ IF engine_color_of(thr[t].arg) = WHITE
       THEN Goto(t, [thr[t] EXCEPT !.pc = "e_send"])
       ELSE /\ Respond(t, 200, Msg("Engine is black. You are white. Make your move.", <<>>, ""))
            /\ UNCHANGED <<gen, epush, tally, last, finished>>

\* make_move line 80.
CLegal(t) ==
    /\ thr[t].pc = "k_legal"
    /\ UNCHANGED game
    /\ IF thr[t].arg \notin legal_moves(game.board)
       THEN /\ Respond(t, 200, Msg("Illegal move", <<>>, ""))
            /\ UNCHANGED <<gen, epush, tally, last, finished>>
       ELSE Goto(t, [thr[t] EXCEPT !.pc = "k_push"])

\* make_move line 83.
CPush(t) ==
    /\ thr[t].pc = "k_push"
    /\ Len(game.board.move_stack) < ConcMaxPly
    /\ game' = [game EXCEPT !.board = push(@, thr[t].arg)]
    /\ Goto(t, [thr[t] EXCEPT !.pc = "k_mate"])

\* make_move lines 85-86.
CMate(t) ==
    /\ thr[t].pc = "k_mate"
    /\ UNCHANGED game
    /\ IF is_checkmate(game.board)
       THEN /\ Respond(t, 200, Msg("Checkmate, you win!", <<>>, ""))
            /\ UNCHANGED <<gen, epush, tally, last, finished>>
       ELSE Goto(t, [thr[t] EXCEPT !.pc = "k_draw"])

\* make_move lines 87-88.
CDraw(t) ==
    /\ thr[t].pc = "k_draw"
    /\ UNCHANGED game
    /\ IF is_stalemate(game.board) \/ is_insufficient_material(game.board)
       THEN /\ Respond(t, 200, Msg("Draw", <<>>, ""))
            /\ UNCHANGED <<gen, epush, tally, last, finished>>
       ELSE Goto(t, [thr[t] EXCEPT !.pc = "e_send"])

\* _get_engine_move line 65: the position of the current board is sent.
CEngineSend(t) ==
    /\ thr[t].pc = "e_send"
    /\ UNCHANGED game
    /\ thr' = [thr EXCEPT ![t].pc = "e_wait", ![t].fen = game.board, ![t].gsent = gen]
    /\ tally' = [tally EXCEPT !.openings =
                    @ + (IF thr[t].caller = "set_color" /\ thr[t].clean THEN 1 ELSE 0)]
    /\ UNCHANGED <<response, gen, epush, last, finished>>

\* _get_engine_move lines 66-68: the engine answers after its thinking time;
\* a falsy reply returns None to the caller (lines 60, 92), a reply that does
\* not parse raises.
CEngineReply(t) ==
    /\ thr[t].pc = "e_wait"
    /\ UNCHANGED game
    /\ \E best_move \in ConcReplies :
        IF ~Truthy(best_move)
        THEN /\ Respond(t, 200, Msg("Engine error", <<>>, ""))
             /\ UNCHANGED <<gen, epush, tally, last, finished>>
        ELSE IF ~ParsesAsUci(best_move.text)
        THEN /\ Respond(t, 500, NoMsg)
             /\ UNCHANGED <<gen, epush, tally, last, finished>>
        ELSE Goto(t, [thr[t] EXCEPT !.pc = "e_legal", !.best = best_move])

\* _get_engine_move line 69: the reply is tested against the board the
\* session holds now.
CEngineLegal(t) ==
    /\ thr[t].pc = "e_legal"
    /\ UNCHANGED game
    /\ IF thr[t].best.text \in legal_moves(game.board)
       THEN Goto(t, [thr[t] EXCEPT !.pc = "e_push"])
       ELSE /\ Respond(t, 200, Msg("Engine error", <<>>, ""))
            /\ UNCHANGED <<gen, epush, tally, last, finished>>

\* _get_engine_move lines 70-71: the reply is pushed on the board the session
\* holds now; set_color then returns (line 59), make_move goes on to line 94.
CEnginePush(t) ==
    /\ thr[t].pc = "e_push"
    /\ Len(game.board.move_stack) < ConcMaxPly
    /\ game' = [game EXCEPT !.board = push(@, thr[t].best.text)]
    /\ epush' = [fen |-> thr[t].fen, gsent |-> thr[t].gsent,
                 on |-> game.board, gon |-> gen]
    /\ IF thr[t].caller = "set_color"
       THEN Respond(t, 200, Msg("You are white. First move: ", thr[t].best.text, ""))
       ELSE /\ thr' = [thr EXCEPT ![t].pc = "a_mate"]
            /\ UNCHANGED response
    /\ UNCHANGED <<gen, tally, last, finished>>

\* make_move lines 94-95.
CAfterMate(t) ==
    /\ thr[t].pc = "a_mate"
    /\ UNCHANGED game
    /\ IF is_checkmate(game.board)
       THEN /\ Respond(t, 200, Msg("", thr[t].best.text, "\nCheckmate, I win!"))
            /\ UNCHANGED <<gen, epush, tally, last, finished>>
       ELSE Goto(t, [thr[t] EXCEPT !.pc = "a_draw"])

\* make_move lines 96-99.
CAfterDraw(t) ==
    /\ thr[t].pc = "a_draw"
    /\ UNCHANGED <<game, gen, epush, tally, last, finished>>
    /\ IF is_stalemate(game.board) \/ is_insufficient_material(game.board)
       THEN Respond(t, 200, Msg("", thr[t].best.text, "\nDraw"))
       ELSE Respond(t, 200, Msg("", thr[t].best.text, ""))

ConcNext ==
    \E t \in Threads :
        \/ CStart(t)
        \/ CStartStarted(t)
        \/ CStartWaiting(t)
        \/ CMove(t)
        \/ CMoveStarted(t)
        \/ CSetUser(t)
        \/ CSetStarted(t)
        \/ CSetWaiting(t)
        \/ CLegal(t)
        \/ CPush(t)
        \/ CMate(t)
        \/ CDraw(t)
        \/ CEngineSend(t)
        \/ CEngineReply(t)
        \/ CEngineLegal(t)
        \/ CEnginePush(t)
        \/ CAfterMate(t)
        \/ CAfterDraw(t)

allvars == <<game, response, last, finished, thr, gen, epush, tally>>

SpecConc == Init /\ [][ConcNext]_allvars

\* C19: under interleaving, every engine reply is pushed on the very board
\* whose position was sent to the engine for it: the same board object
\* (none created by start_game in between) in the same position.
C19_ReplyPushedOnBoardSent ==
    /\ epush.gon = epush.gsent
    /\ epush.on = epush.fen

\* C20: under interleaving, among the /move requests issued after one start
\* and before the next, user_color is assigned at most once and at most one
\* opening engine turn is run.
C20_OneColourChoice ==
    /\ tally.assigns <= 1
    /\ tally.openings <= 1

====
